---- MODULE Spec2Model ----
(***************************************************************************)
(* Inventory ledger and sale transaction engine of the pharmacy backend:   *)
(* SalesService (createSale, cancelSale, findOne) and InventoryService     *)
(* (adjustStock, createStockMovement) over the PostgreSQL tables           *)
(* inventory_items, stock_movements, sales and sale_items.                 *)
(*                                                                         *)
(* The database is modelled at READ COMMITTED, PostgreSQL's default and    *)
(* the level Prisma's $transaction uses when none is given: the variables  *)
(* quantity, sales, sale_items and stock_movements are the committed rows, *)
(* tx[r] is the uncommitted work of the interactive transaction of request *)
(* r, visible to the statements sent through its client `tx` only.  A      *)
(* statement sent through `this.prisma` runs on another connection and     *)
(* reads the committed rows, also when it is issued from inside the        *)
(* $transaction callback.  An UPDATE takes the row's lock until the        *)
(* transaction ends.                                                       *)
(*                                                                         *)
(* Money is counted in hundredths of the currency unit; the discount       *)
(* amount of a request line is given in thousandths.                       *)
(***************************************************************************)
EXTENDS Integers, Sequences, FiniteSets, TLC

\* ---------------------------------------------------------------- bounds
MaxReqs    == 2      \* requests (calls of the service) in one behaviour
MaxLines   == 2      \* line items of one createSale request
MaxInstant == 2      \* last instant of the clock of a behaviour
MaxSaleId  == 4      \* sale ids the database hands out

\* SQL NULL / an optional DTO field left out (numeric fields)
Null == -1

Reqs    == 1..MaxReqs
Instants == 1..MaxInstant
SaleIds == 1..MaxSaleId

\* ------------------------------------------------ rows of the other tables
\* warehouses(id, tenant_id, is_active); id 4 is in no row
Warehouses == 1..3
WarehouseIds == 1..4
Tenants == {"A", "B"}
WarehouseTenant(w) == IF w = 2 THEN "B" ELSE "A"
WarehouseActive(w) == w # 3

\* inventory_items(id, warehouse_id, reserved_qty, selling_price); id 4 is in no row
Items == 1..3
ItemIds == 1..4
ItemWarehouse(i) == IF i = 3 THEN 2 ELSE 1
ReservedQty(i) == IF i = 2 THEN 3 ELSE 0
SellingPrice(i) == CASE i = 1 -> 1500 [] i = 2 -> Null [] OTHER -> 200
InitQuantity(i) == IF i = 2 THEN 6 ELSE 5

\* the row of inventory_items as a read returns it
InventoryItemRow(i, q) ==
    [id |-> i, warehouse_id |-> ItemWarehouse(i), quantity |-> q,
     reserved_qty |-> ReservedQty(i), selling_price |-> SellingPrice(i)]

\* ---------------------------------------------------------------- inputs
LineQtys == {3, 6}                 \* CreateSaleItemDto.quantity, @Min(1)
\* unit_price in hundredths, discount_amount in thousandths (both are free numbers,
\* @IsNumber @Min(0)), the percentages in whole percents
Pricing ==
    { [unit_price |-> Null, discount_percent |-> 10, discount_amount |-> Null, tax_percent |-> 4],
      [unit_price |-> 100,  discount_percent |-> 10, discount_amount |-> 3125, tax_percent |-> Null] }
SaleLines ==
    { [inventory_item_id |-> i, quantity |-> q, unit_price |-> p.unit_price,
       discount_percent |-> p.discount_percent, discount_amount |-> p.discount_amount,
       tax_percent |-> p.tax_percent] : i \in Items, q \in LineQtys, p \in Pricing }
\* CreateSaleDto without its items: the lines are drawn as the loop reaches them
CreateSaleDtos ==
    { [warehouse_id |-> w, payment_method |-> "CASH"] : w \in WarehouseIds }

VARIABLES
    quantity,          \* inventory_items.quantity, committed
    sales,             \* sales rows, committed: id -> row
    sale_items,        \* sale_items rows, committed: sale id -> rows in insertion order
    stock_movements,   \* stock_movements rows, committed, in insertion order
    tx,                \* request -> its open interactive transaction
    req,               \* request -> the call: operation, arguments, locals, position
    nextSaleId,        \* next id the database generates for a sale
    today              \* new Date(): the instant, in steps of which every second
                       \* one passes the server's midnight and every other one UTC's

vars == <<quantity, sales, sale_items, stock_movements, tx, req, nextSaleId, today>>
db == <<quantity, sales, sale_items, stock_movements>>

\* ------------------------------------------------------------ transactions
NoTx == [open |-> FALSE, sales |-> <<>>, sale_items |-> <<>>, stock_movements |-> <<>>,
         delta |-> [i \in Items |-> 0], rows |-> {}]

\* the row lock of inventory item i is free for request r
RowFree(r, i) == \A o \in Reqs \ {r} : i \notin tx[o].rows
\* the row lock (or the pending insert) of sale id is free for request r
SaleRowFree(r, id) == \A o \in Reqs \ {r} : id \notin DOMAIN tx[o].sales
\* no other open transaction holds an uncommitted sale with this sale_number
NumberFree(r, n) ==
    \A o \in Reqs \ {r} : \A id \in DOMAIN tx[o].sales : tx[o].sales[id].sale_number # n


\* ---------------------------------------------------------------- requests
NoSaleRead == [id |-> 0, status |-> "none", created_at |-> 0, warehouse_id |-> 0,
               sale_number |-> <<0, 0>>, sale_items |-> <<>>]
NoItemRead == InventoryItemRow(0, 0)
NoDto == [none |-> TRUE]
NoTotals == [totalAmount |-> 0, totalDiscountAmount |-> 0, totalTaxAmount |-> 0,
             finalAmount |-> 0]
NoReads == [pending |-> {}, totalSales |-> 0, totalAmount |-> 0, sales |-> <<>>]
NoStats == [total_sales |-> 0, total_revenue |-> 0, average_transaction |-> 0,
            sales_by_payment_method |-> <<>>]
IdleReq ==
    [op |-> "none", pc |-> "idle", tenantId |-> "none", userId |-> 0, dto |-> NoDto,
     id |-> 0,                    \* the :id of the route (sale or inventory item)
     validatedItems |-> <<>>,     \* createSale: validatedItems
     totals |-> NoTotals,         \* createSale: the running totals
     saleNumber |-> <<0, 0>>,     \* createSale: saleNumber
     saleId |-> 0,                \* createSale: sale.id of the inserted row
     sale |-> NoSaleRead,         \* cancelSale: the sale read before the transaction
     inventoryItem |-> NoItemRead,\* inventory calls: the item read at the start
     newQuantity |-> 0,           \* inventory calls: newQuantity
     k |-> 0,                     \* position of the running loop
     reads |-> NoReads,           \* getStatistics: the results of its three queries
     stats |-> NoStats,           \* getStatistics: the response
     result |-> "none",           \* "ok" or the exception thrown
     returned |-> "none",         \* status of the sale in the response
     after |-> {}]                \* the calls that had returned when this one started

InFlight(r) == req[r].pc \notin {"idle", "done"}

\* calls are numbered in the order they start
CanStart(r) ==
    /\ req[r].pc = "idle"
    /\ \A o \in Reqs : o < r => req[o].pc # "idle"

\* the calls that have returned
Returned == { o \in Reqs : req[o].pc = "done" }

\* request r starts as record c
Started(r, c) == [req EXCEPT ![r] = [c EXCEPT !.after = Returned]]

\* what is kept of the validated lines of a call that has ended: the items, the
\* quantities asked and the stock that was read
LinesAsked(validatedItems) ==
    [k \in 1..Len(validatedItems) |->
        [inventoryItem |-> validatedItems[k].inventoryItem,
         item |-> [inventory_item_id |-> validatedItems[k].item.inventory_item_id,
                   quantity |-> validatedItems[k].item.quantity,
                   unit_price |-> Null, discount_percent |-> Null,
                   discount_amount |-> Null, tax_percent |-> Null],
         unitPrice |-> 0, subtotal |-> 0, discountAmount |-> 0, taxAmount |-> 0]]

\* the call of r ends: the response (or the exception) is all that is left of it
Ended(r, result, returned) ==
    [IdleReq EXCEPT !.op = req[r].op, !.pc = "done", !.tenantId = req[r].tenantId,
                    !.id = IF req[r].op = "cancelSale" THEN req[r].id ELSE 0,
                    !.validatedItems = LinesAsked(req[r].validatedItems),
                    !.saleId = req[r].saleId, !.result = result,
                    !.returned = returned, !.after = req[r].after]

\* the call of r, started as record c, is rejected by its first check
Rejected(r, c, result) ==
    Started(r, [IdleReq EXCEPT !.op = c.op, !.pc = "done", !.tenantId = c.tenantId,
                               !.id = IF c.op = "cancelSale" THEN c.id ELSE 0,
                               !.result = result])

\* the acting user of a call (taken from its JWT)
CallerUser(r) == r

\* ------------------------------------------------------------ SalesService
\* Math.round(v * 100) / 100 of an amount given in 1/10000 of a hundredth:
\* the result in hundredths (Math.round rounds a half towards +infinity)
Round2(vS) == (vS + 5000) \div 10000

\* mutant of calculateItemSubtotal: the tax is reported but not added to the subtotal
calculateItemSubtotalWithoutTax(qty, unitPrice, discountPercent, discountAmount, taxPercent) ==
    LET baseS  == qty * unitPrice * 10000
        discS  == IF discountAmount # Null /\ discountAmount > 0
                      THEN discountAmount * 1000
                  ELSE IF discountPercent # Null /\ discountPercent > 0
                      THEN qty * unitPrice * discountPercent * 100
                  ELSE 0
        afterS == baseS - discS
        taxS   == IF taxPercent # Null /\ taxPercent > 0
                      THEN (afterS * taxPercent) \div 100
                  ELSE 0
    IN  [subtotal |-> Round2(afterS),
         discountAmount |-> Round2(discS),
         taxAmount |-> Round2(taxS)]

calculateItemSubtotal(qty, unitPrice, discountPercent, discountAmount, taxPercent) ==
    LET baseS  == qty * unitPrice * 10000
        discS  == IF discountAmount # Null /\ discountAmount > 0
                      THEN discountAmount * 1000
                  ELSE IF discountPercent # Null /\ discountPercent > 0
                      THEN qty * unitPrice * discountPercent * 100
                  ELSE 0
        afterS == baseS - discS
        taxS   == IF taxPercent # Null /\ taxPercent > 0
                      THEN (afterS * taxPercent) \div 100
                  ELSE 0
    IN  [subtotal |-> Round2(afterS + taxS),
         discountAmount |-> Round2(discS),
         taxAmount |-> Round2(taxS)]

\* the calendar date of an instant on the server's clock (getDate, setHours), for
\* a server whose zone is ahead of UTC: instants 0 and 1 are of date 1, 2 and 3 of
\* date 2
localDate(t) == (t \div 2) + 1

\* the calendar date of an instant in UTC (toISOString): instants 1 and 2 are of
\* date 1, 3 and 4 of date 2
utcDate(t) == ((t - 1) \div 2) + 1

\* sale.count({tenant_id, created_at from startOfDay to endOfDay on the server's
\* clock, sale_number startsWith prefix}), the prefix being the UTC date
SalesCountedToday(tenantId) ==
    { id \in DOMAIN sales :
        /\ sales[id].tenant_id = tenantId
        /\ localDate(sales[id].created_at) = localDate(today)
        /\ sales[id].sale_number[1] = utcDate(today) }

\* SALE-<UTC date>-<count + 1>, as the pair <<date, sequence>>
generateSaleNumber(tenantId) ==
    <<utcDate(today), Cardinality(SalesCountedToday(tenantId)) + 1>>

\* mutant of findOne: the read goes through the transaction's client, and sees the
\* rows of the open transaction
findOneInTransaction(id, tenantId) ==
    LET holders == { r \in Reqs : id \in DOMAIN tx[r].sales
                                  /\ tx[r].sales[id].tenant_id = tenantId }
    IN  IF holders # {}
            THEN [found |-> TRUE, status |-> tx[CHOOSE r \in holders : TRUE].sales[id].status]
        ELSE IF id \in DOMAIN sales /\ sales[id].tenant_id = tenantId
            THEN [found |-> TRUE, status |-> sales[id].status]
        ELSE [found |-> FALSE, status |-> "none"]

\* findOne: this.prisma.sale.findFirst({id, tenant_id}) -- the committed rows
findOne(id, tenantId) ==
    IF id \in DOMAIN sales /\ sales[id].tenant_id = tenantId
        THEN [found |-> TRUE, status |-> sales[id].status]
        ELSE [found |-> FALSE, status |-> "none"]

\* mutant of availableStock: the reserved quantity is not taken off
availableStockIgnoringReserved(inventoryItem) == inventoryItem.quantity

availableStock(inventoryItem) == inventoryItem.quantity - inventoryItem.reserved_qty

\* item.unit_price ?? Number(inventoryItem.selling_price ?? 0)
resolveUnitPrice(item, inventoryItem) ==
    IF item.unit_price # Null THEN item.unit_price
    ELSE IF inventoryItem.selling_price # Null THEN inventoryItem.selling_price
    ELSE 0

\* the transaction commits: its rows become the committed rows
Commit(r) ==
    /\ quantity' = [i \in Items |-> quantity[i] + tx[r].delta[i]]
    /\ sales' = tx[r].sales @@ sales
    /\ sale_items' = tx[r].sale_items @@ sale_items
    /\ stock_movements' = stock_movements \o tx[r].stock_movements
    /\ tx' = [tx EXCEPT ![r] = NoTx]

\* mutant of Rollback: the movements were written outside the transaction, and stay
RollbackKeepsMovements(r) ==
    /\ stock_movements' = stock_movements \o tx[r].stock_movements
    /\ UNCHANGED <<quantity, sales, sale_items>>
    /\ tx' = [tx EXCEPT ![r] = NoTx]

\* the transaction rolls back: its rows are dropped
Rollback(r) ==
    /\ UNCHANGED db
    /\ tx' = [tx EXCEPT ![r] = NoTx]

\* createSale, lines 100-110: the warehouse of the tenant
CreateSale(r) ==
    /\ CanStart(r)
    /\ \E tenantId \in Tenants, dto \in CreateSaleDtos :
        LET c == [IdleReq EXCEPT !.op = "createSale", !.tenantId = tenantId,
                                 !.userId = CallerUser(r), !.dto = dto]
            warehouse == dto.warehouse_id \in Warehouses
                         /\ WarehouseTenant(dto.warehouse_id) = tenantId
        IN  IF ~warehouse \/ ~WarehouseActive(dto.warehouse_id)
                THEN req' = Rejected(r, c, "NotFound: warehouse")
                ELSE req' = Started(r, [c EXCEPT !.pc = "validate", !.k = 1])
    /\ UNCHANGED <<db, tx, nextSaleId, today>>

\* createSale, lines 118-173: one turn of the validation loop over dto.items;
\* `item` is the line the loop has reached, `last` tells that it is the last one
CreateSaleValidate(r) ==
    /\ req[r].pc = "validate"
    /\ \E item \in SaleLines, last \in BOOLEAN :
        LET dto  == req[r].dto
            found == item.inventory_item_id \in Items
                     /\ ItemWarehouse(item.inventory_item_id) = dto.warehouse_id
            inventoryItem == InventoryItemRow(item.inventory_item_id,
                                              quantity[item.inventory_item_id])
            unitPrice == resolveUnitPrice(item, inventoryItem)
            calculation == calculateItemSubtotal(item.quantity, unitPrice,
                               item.discount_percent, item.discount_amount,
                               item.tax_percent)
            t == req[r].totals
        IN  /\ req[r].k = MaxLines => last
            /\ IF ~found
                   THEN req' = [req EXCEPT ![r] = Ended(r, "NotFound: inventory item", "none")]
               ELSE IF availableStock(inventoryItem) < item.quantity
                   THEN req' = [req EXCEPT ![r] = Ended(r, "BadRequest: insufficient stock", "none")]
               ELSE IF unitPrice <= 0
                   THEN req' = [req EXCEPT ![r] = Ended(r, "BadRequest: invalid unit price", "none")]
               ELSE req' = [req EXCEPT
                       ![r].validatedItems = Append(@,
                            [inventoryItem |-> inventoryItem, item |-> item,
                             unitPrice |-> unitPrice, subtotal |-> calculation.subtotal,
                             discountAmount |-> calculation.discountAmount,
                             taxAmount |-> calculation.taxAmount]),
                       ![r].totals =
                            [totalAmount |-> t.totalAmount + item.quantity * unitPrice,
                             totalDiscountAmount |-> t.totalDiscountAmount + calculation.discountAmount,
                             totalTaxAmount |-> t.totalTaxAmount + calculation.taxAmount,
                             finalAmount |-> 0],
                       ![r].k = @ + 1,
                       ![r].pc = IF last THEN "number" ELSE "validate"]
    /\ UNCHANGED <<db, tx, nextSaleId, today>>

\* createSale, lines 175-178: finalAmount and the sale number
CreateSaleNumber(r) ==
    /\ req[r].pc = "number"
    /\ req' = [req EXCEPT
            ![r].totals.finalAmount = req[r].totals.totalAmount
                - req[r].totals.totalDiscountAmount + req[r].totals.totalTaxAmount,
            ![r].saleNumber = generateSaleNumber(req[r].tenantId),
            ![r].pc = "insertSale"]
    /\ UNCHANGED <<db, tx, nextSaleId, today>>

\* sales.sale_number is UNIQUE (base.sql): a committed row has this number
NumberTaken(n) == \E id \in DOMAIN sales : sales[id].sale_number = n

\* createSale, lines 181-197: the transaction opens, tx.sale.create
CreateSaleInsertSale(r) ==
    /\ req[r].pc = "insertSale"
    /\ nextSaleId <= MaxSaleId
    /\ NumberFree(r, req[r].saleNumber)
    /\ IF NumberTaken(req[r].saleNumber)
           THEN /\ req' = [req EXCEPT ![r] = Ended(r, "UniqueViolation: sale_number", "none")]
                /\ UNCHANGED <<tx, nextSaleId>>
           ELSE /\ tx' = [tx EXCEPT ![r] = [NoTx EXCEPT
                       !.open = TRUE,
                       !.sales = nextSaleId :>
                           [sale_number |-> req[r].saleNumber,
                            warehouse_id |-> req[r].dto.warehouse_id,
                            user_id |-> req[r].userId,
                            status |-> "COMPLETED",
                            payment_method |-> req[r].dto.payment_method,
                            total_amount |-> req[r].totals.totalAmount,
                            discount_amount |-> req[r].totals.totalDiscountAmount,
                            tax_amount |-> req[r].totals.totalTaxAmount,
                            final_amount |-> req[r].totals.finalAmount,
                            tenant_id |-> req[r].tenantId,
                            created_at |-> today],
                       !.sale_items = nextSaleId :> <<>>]]
                /\ nextSaleId' = nextSaleId + 1
                /\ req' = [req EXCEPT ![r].saleId = nextSaleId, ![r].k = 1,
                                      ![r].pc = "saleItems"]
    /\ UNCHANGED <<db, today>>

\* the sale_items row of a validated line (lines 203-217)
SaleItemRow(saleId, validated) ==
    [sale_id |-> saleId, inventory_item_id |-> validated.inventoryItem.id,
     quantity |-> validated.item.quantity, unit_price |-> validated.unitPrice,
     discount_amount |-> validated.discountAmount, tax_amount |-> validated.taxAmount,
     subtotal |-> validated.subtotal]

\* the stock_movements row of a validated line (lines 232-243)
SaleMovementRow(saleId, warehouseId, userId, validated) ==
    [inventory_item_id |-> validated.inventoryItem.id, warehouse_id |-> warehouseId,
     movement_type |-> "OUT", quantity |-> validated.item.quantity,
     reference_type |-> "SALE", reference_id |-> saleId, created_by |-> userId]

\* quantity: { decrement: validated.item.quantity } (lines 222-229)
SaleDecrement(validated) == validated.item.quantity

\* createSale, lines 201-244: one turn of the loop inside the transaction
CreateSaleItem(r) ==
    /\ req[r].pc = "saleItems"
    /\ LET validated == req[r].validatedItems[req[r].k]
           i == validated.inventoryItem.id
       IN  /\ RowFree(r, i)
           /\ tx' = [tx EXCEPT
                   ![r].sale_items[req[r].saleId] =
                        Append(@, SaleItemRow(req[r].saleId, validated)),
                   ![r].delta[i] = @ - SaleDecrement(validated),
                   ![r].rows = @ \cup {i},
                   ![r].stock_movements = Append(@,
                        SaleMovementRow(req[r].saleId, req[r].dto.warehouse_id,
                                        req[r].userId, validated))]
    /\ req' = [req EXCEPT ![r].k = @ + 1,
                          ![r].pc = IF req[r].k = Len(req[r].validatedItems)
                                        THEN "readBack" ELSE "saleItems"]
    /\ UNCHANGED <<db, nextSaleId, today>>

\* createSale, line 251: this.findOne(sale.id, tenantId) inside the callback, then
\* the callback returns and $transaction commits, or it throws and rolls back
CreateSaleReadBack(r) ==
    /\ req[r].op = "createSale"
    /\ req[r].pc = "readBack"
    /\ LET read == findOne(req[r].saleId, req[r].tenantId)
       IN  IF read.found
               THEN /\ Commit(r)
                    /\ req' = [req EXCEPT ![r] = Ended(r, "ok", read.status)]
               ELSE /\ Rollback(r)
                    /\ req' = [req EXCEPT ![r] = Ended(r, "NotFound: sale", "none")]
    /\ UNCHANGED <<nextSaleId, today>>


\* mutant of isSameDay: a rolling window instead of the calendar day
isWithinOneDay(saleDate, now) == now - saleDate <= 1

\* cancelSale, lines 456-459: same date, month and year
isSameDay(saleDate, now) == localDate(saleDate) = localDate(now)

\* mutant of cancelSaleCheck: a cancelled sale is not turned away
cancelSaleCheckWithoutCancelled(found, sale, now) ==
    IF ~found THEN "NotFound: sale"
    ELSE IF sale.status = "REFUNDED" THEN "BadRequest: refunded"
    ELSE IF ~isSameDay(sale.created_at, now) THEN "Forbidden: not the same day"
    ELSE "ok"

\* mutant of cancelSaleCheck: a refunded sale is not turned away
cancelSaleCheckWithoutRefunded(found, sale, now) ==
    IF ~found THEN "NotFound: sale"
    ELSE IF sale.status = "CANCELLED" THEN "BadRequest: already cancelled"
    ELSE IF ~isSameDay(sale.created_at, now) THEN "Forbidden: not the same day"
    ELSE "ok"

\* cancelSale, lines 441-465: the checks on the sale read at line 427
cancelSaleCheck(found, sale, now) ==
    IF ~found THEN "NotFound: sale"
    ELSE IF sale.status = "CANCELLED" THEN "BadRequest: already cancelled"
    ELSE IF sale.status = "REFUNDED" THEN "BadRequest: refunded"
    ELSE IF ~isSameDay(sale.created_at, now) THEN "Forbidden: not the same day"
    ELSE "ok"

\* cancelSale, lines 427-465: the sale with its items is read, then checked
CancelSale(r) ==
    /\ CanStart(r)
    /\ \E tenantId \in Tenants, id \in SaleIds :
        LET c == [IdleReq EXCEPT !.op = "cancelSale", !.tenantId = tenantId,
                                 !.userId = CallerUser(r), !.id = id]
            found == id \in DOMAIN sales /\ sales[id].tenant_id = tenantId
            sale == IF found
                        THEN [id |-> id, status |-> sales[id].status,
                              created_at |-> sales[id].created_at,
                              warehouse_id |-> sales[id].warehouse_id,
                              sale_number |-> sales[id].sale_number,
                              sale_items |-> sale_items[id]]
                        ELSE NoSaleRead
            check == cancelSaleCheck(found, sale, today)
        IN  IF check # "ok"
                THEN req' = Rejected(r, c, check)
                ELSE req' = Started(r, [c EXCEPT !.pc = "updateSale", !.sale = sale])
    /\ UNCHANGED <<db, tx, nextSaleId, today>>

\* cancelSale, lines 468-475: the transaction opens, tx.sale.update({where: {id}})
CancelSaleUpdate(r) ==
    /\ req[r].pc = "updateSale"
    /\ SaleRowFree(r, req[r].id)
    /\ tx' = [tx EXCEPT ![r] = [NoTx EXCEPT
            !.open = TRUE,
            !.sales = req[r].id :> [sales[req[r].id] EXCEPT !.status = "CANCELLED"]]]
    /\ req' = [req EXCEPT ![r].k = 1,
                          ![r].pc = IF Len(req[r].sale.sale_items) = 0
                                        THEN "readBack" ELSE "restoreItems"]
    /\ UNCHANGED <<db, nextSaleId, today>>

\* quantity: { increment: saleItem.quantity } (lines 480-487)
CancelIncrement(saleItem) == saleItem.quantity

\* the stock_movements row of a restored line (lines 490-501)
CancelMovementRow(sale, userId, saleItem) ==
    [inventory_item_id |-> saleItem.inventory_item_id, warehouse_id |-> sale.warehouse_id,
     movement_type |-> "RETURN", quantity |-> saleItem.quantity,
     reference_type |-> "SALE_CANCELLATION", reference_id |-> sale.id,
     created_by |-> userId]

\* cancelSale, lines 478-502: one turn of the loop inside the transaction
CancelSaleItem(r) ==
    /\ req[r].pc = "restoreItems"
    /\ LET saleItem == req[r].sale.sale_items[req[r].k]
           i == saleItem.inventory_item_id
       IN  /\ RowFree(r, i)
           /\ tx' = [tx EXCEPT
                   ![r].delta[i] = @ + CancelIncrement(saleItem),
                   ![r].rows = @ \cup {i},
                   ![r].stock_movements = Append(@,
                        CancelMovementRow(req[r].sale, req[r].userId, saleItem))]
    /\ req' = [req EXCEPT ![r].k = @ + 1,
                          ![r].pc = IF req[r].k = Len(req[r].sale.sale_items)
                                        THEN "readBack" ELSE "restoreItems"]
    /\ UNCHANGED <<db, nextSaleId, today>>

\* cancelSale, line 506: this.findOne(id, tenantId) inside the callback, then the
\* callback returns and $transaction commits, or it throws and rolls back
CancelSaleReadBack(r) ==
    /\ req[r].op = "cancelSale"
    /\ req[r].pc = "readBack"
    /\ LET read == findOne(req[r].id, req[r].tenantId)
       IN  IF read.found
               THEN /\ Commit(r)
                    /\ req' = [req EXCEPT ![r] = Ended(r, "ok", read.status)]
               ELSE /\ Rollback(r)
                    /\ req' = [req EXCEPT ![r] = Ended(r, "NotFound: sale", "none")]
    /\ UNCHANGED <<nextSaleId, today>>


\* ------------------------------------------- SalesService.getStatistics
\* the where clause of lines 519-536, as the ids of the committed sales it selects;
\* Null stands for an argument that is not given
statisticsWhereAnyStatus(tenantId, warehouseId, startDate, endDate) ==
    { id \in DOMAIN sales :
        /\ sales[id].tenant_id = tenantId
        /\ warehouseId # Null => sales[id].warehouse_id = warehouseId
        /\ startDate # Null => sales[id].created_at >= startDate
        /\ endDate # Null => sales[id].created_at <= endDate }

statisticsWhere(tenantId, warehouseId, startDate, endDate) ==
    { id \in DOMAIN sales :
        /\ sales[id].tenant_id = tenantId
        /\ sales[id].status = "COMPLETED"
        /\ warehouseId # Null => sales[id].warehouse_id = warehouseId
        /\ startDate # Null => sales[id].created_at >= startDate
        /\ endDate # Null => sales[id].created_at <= endDate }

\* the calls of the model give no warehouse and no dates
StatisticsQuery(r) == statisticsWhere(req[r].tenantId, Null, Null, Null)

\* findMany with select {final_amount, payment_method} (lines 547-553), by id
RECURSIVE SelectedRows(_)
SelectedRows(ids) ==
    IF ids = {} THEN <<>>
    ELSE LET id == CHOOSE x \in ids : \A y \in ids : x <= y
         IN  << [final_amount |-> sales[id].final_amount,
                 payment_method |-> sales[id].payment_method] >>
             \o SelectedRows(ids \ {id})

\* _sum of final_amount (lines 540-545): null when no row is selected
RECURSIVE SumFinalAmount(_)
SumFinalAmount(ids) ==
    IF ids = {} THEN 0
    ELSE LET id == CHOOSE x \in ids : TRUE
         IN  sales[id].final_amount + SumFinalAmount(ids \ {id})

\* sales.reduce of lines 561-565: the number of rows per payment method
salesByPaymentMethod(rows) ==
    [m \in { rows[k].payment_method : k \in DOMAIN rows } |->
        Cardinality({ k \in DOMAIN rows : rows[k].payment_method = m })]

\* Math.round(averageTransaction * 100) / 100 of a quotient of hundredths
RoundQuotient(totalRevenue, totalSales) ==
    (2 * totalRevenue + totalSales) \div (2 * totalSales)

\* lines 557-571: the response built from the three results
statisticsResponse(reads) ==
    LET totalRevenue == IF reads.totalAmount = Null THEN 0 ELSE reads.totalAmount
    IN  [total_sales |-> reads.totalSales,
         total_revenue |-> totalRevenue,
         average_transaction |-> IF reads.totalSales > 0
                                     THEN RoundQuotient(totalRevenue, reads.totalSales)
                                     ELSE 0,
         sales_by_payment_method |-> salesByPaymentMethod(reads.sales)]

\* getStatistics, lines 513-538: the where clause is built and Promise.all sends
\* the three queries
GetStatistics(r) ==
    /\ CanStart(r)
    /\ \E tenantId \in Tenants :
        req' = Started(r, [IdleReq EXCEPT
                    !.op = "getStatistics", !.tenantId = tenantId,
                    !.userId = CallerUser(r), !.pc = "queries",
                    !.reads = [NoReads EXCEPT
                                  !.pending = {"count", "aggregate", "findMany"}]])
    /\ UNCHANGED <<db, tx, nextSaleId, today>>

\* line 539: this.prisma.sale.count({ where }) reads the committed rows
GetStatisticsCount(r) ==
    /\ req[r].pc = "queries"
    /\ "count" \in req[r].reads.pending
    /\ req' = [req EXCEPT ![r].reads.pending = @ \ {"count"},
                          ![r].reads.totalSales = Cardinality(StatisticsQuery(r))]
    /\ UNCHANGED <<db, tx, nextSaleId, today>>

\* lines 540-545: this.prisma.sale.aggregate({ where, _sum })
GetStatisticsAggregate(r) ==
    /\ req[r].pc = "queries"
    /\ "aggregate" \in req[r].reads.pending
    /\ req' = [req EXCEPT ![r].reads.pending = @ \ {"aggregate"},
                          ![r].reads.totalAmount =
                              IF StatisticsQuery(r) = {} THEN Null
                              ELSE SumFinalAmount(StatisticsQuery(r))]
    /\ UNCHANGED <<db, tx, nextSaleId, today>>

\* lines 546-553: this.prisma.sale.findMany({ where, select })
GetStatisticsFindMany(r) ==
    /\ req[r].pc = "queries"
    /\ "findMany" \in req[r].reads.pending
    /\ req' = [req EXCEPT ![r].reads.pending = @ \ {"findMany"},
                          ![r].reads.sales = SelectedRows(StatisticsQuery(r))]
    /\ UNCHANGED <<db, tx, nextSaleId, today>>

\* lines 556-571: the three results are in, the response is returned
GetStatisticsReturn(r) ==
    /\ req[r].pc = "queries"
    /\ req[r].reads.pending = {}
    /\ req' = [req EXCEPT ![r] = [Ended(r, "ok", "none") EXCEPT
                                    !.stats = statisticsResponse(req[r].reads)]]
    /\ UNCHANGED <<db, tx, nextSaleId, today>>


\* -------------------------------------------------------- InventoryService
MovementTypes == {"IN", "OUT", "ADJUSTMENT", "TRANSFER", "RETURN"}
MoveQtys == {3}                    \* CreateStockMovementDto.quantity, @Min(1)
AdjustQtys == {0, 3, 5}            \* AdjustStockDto.quantity, @Min(0)

Abs(n) == IF n < 0 THEN -n ELSE n

\* mutant of findInventoryItemById: the item is looked up by its id alone
findInventoryItemByIdAnyTenant(id, tenantId) == id \in Items

\* findInventoryItemById: the item, if its warehouse is the tenant's
findInventoryItemById(id, tenantId) ==
    id \in Items /\ WarehouseTenant(ItemWarehouse(id)) = tenantId

\* adjustStock, lines 229-237: the item is read, the difference checked
AdjustStock(r) ==
    /\ CanStart(r)
    /\ \E tenantId \in Tenants, id \in ItemIds, newQuantity \in AdjustQtys :
        LET c == [IdleReq EXCEPT !.op = "adjustStock", !.tenantId = tenantId,
                                 !.userId = CallerUser(r), !.id = id]
        IN  IF ~findInventoryItemById(id, tenantId)
                THEN req' = Rejected(r, c, "NotFound: inventory item")
            ELSE IF newQuantity - quantity[id] = 0
                THEN req' = Rejected(r, c, "BadRequest: same quantity")
            ELSE req' = Started(r, [c EXCEPT !.pc = "adjustUpdate",
                                             !.inventoryItem = InventoryItemRow(id, quantity[id]),
                                             !.newQuantity = newQuantity])
    /\ UNCHANGED <<db, tx, nextSaleId, today>>

\* adjustStock, lines 240-262: this.prisma.inventoryItem.update, quantity: newQuantity
AdjustStockUpdate(r) ==
    /\ req[r].pc = "adjustUpdate"
    /\ RowFree(r, req[r].id)
    /\ quantity' = [quantity EXCEPT ![req[r].id] = req[r].newQuantity]
    /\ req' = [req EXCEPT ![r].pc = "adjustMovement"]
    /\ UNCHANGED <<sales, sale_items, stock_movements, tx, nextSaleId, today>>

\* the stock_movements row of an adjustment (lines 265-274)
AdjustMovementRow(item, newQuantity, userId) ==
    [inventory_item_id |-> item.id, warehouse_id |-> item.warehouse_id,
     movement_type |-> "ADJUSTMENT", quantity |-> Abs(newQuantity - item.quantity),
     reference_type |-> "null", reference_id |-> Null, created_by |-> userId]

\* adjustStock, lines 265-280: this.prisma.stockMovement.create
AdjustStockMovement(r) ==
    /\ req[r].pc = "adjustMovement"
    /\ stock_movements' = Append(stock_movements,
            AdjustMovementRow(req[r].inventoryItem, req[r].newQuantity, req[r].userId))
    /\ req' = [req EXCEPT ![r] = Ended(r, "ok", "none")]
    /\ UNCHANGED <<quantity, sales, sale_items, tx, nextSaleId, today>>

CreateStockMovementDtos ==
    { [inventory_item_id |-> i, warehouse_id |-> w, movement_type |-> t, quantity |-> q] :
        i \in ItemIds, w \in WarehouseIds, t \in MovementTypes, q \in MoveQtys }

\* createStockMovement, lines 316-327: newQuantity by movement type
movementNewQuantity(inventoryItem, dto) ==
    IF dto.movement_type = "IN" THEN inventoryItem.quantity + dto.quantity
    ELSE IF dto.movement_type = "OUT" THEN inventoryItem.quantity - dto.quantity
    ELSE IF dto.movement_type = "ADJUSTMENT" THEN dto.quantity
    ELSE inventoryItem.quantity

\* createStockMovement, lines 292-327: warehouse, item, newQuantity
CreateStockMovement(r) ==
    /\ CanStart(r)
    /\ \E tenantId \in Tenants, dto \in CreateStockMovementDtos :
        LET c == [IdleReq EXCEPT !.op = "createStockMovement", !.tenantId = tenantId,
                                 !.userId = CallerUser(r), !.id = dto.inventory_item_id]
            warehouse == dto.warehouse_id \in Warehouses
                         /\ WarehouseTenant(dto.warehouse_id) = tenantId
            found == dto.inventory_item_id \in Items
                     /\ ItemWarehouse(dto.inventory_item_id) = dto.warehouse_id
            inventoryItem == InventoryItemRow(dto.inventory_item_id,
                                              quantity[dto.inventory_item_id])
            newQuantity == movementNewQuantity(inventoryItem, dto)
        IN  IF ~warehouse
                THEN req' = Rejected(r, c, "NotFound: warehouse")
            ELSE IF ~found
                THEN req' = Rejected(r, c, "NotFound: inventory item")
            ELSE IF dto.movement_type = "OUT" /\ newQuantity < 0
                THEN req' = Rejected(r, c, "BadRequest: insufficient stock")
            ELSE req' = Started(r, [c EXCEPT !.pc = "movementUpdate", !.dto = dto,
                                             !.inventoryItem = inventoryItem,
                                             !.newQuantity = newQuantity])
    /\ UNCHANGED <<db, tx, nextSaleId, today>>

\* createStockMovement, lines 330-333: this.prisma.inventoryItem.update
CreateStockMovementUpdate(r) ==
    /\ req[r].pc = "movementUpdate"
    /\ RowFree(r, req[r].id)
    /\ quantity' = [quantity EXCEPT ![req[r].id] = req[r].newQuantity]
    /\ req' = [req EXCEPT ![r].pc = "movementCreate"]
    /\ UNCHANGED <<sales, sale_items, stock_movements, tx, nextSaleId, today>>

\* the stock_movements row of a recorded movement: {...dto, created_by} (lines 336-341)
ManualMovementRow(dto, userId) ==
    [inventory_item_id |-> dto.inventory_item_id, warehouse_id |-> dto.warehouse_id,
     movement_type |-> dto.movement_type, quantity |-> dto.quantity,
     reference_type |-> "null", reference_id |-> Null, created_by |-> userId]

\* createStockMovement, lines 336-347: this.prisma.stockMovement.create
CreateStockMovementCreate(r) ==
    /\ req[r].pc = "movementCreate"
    /\ stock_movements' = Append(stock_movements,
            ManualMovementRow(req[r].dto, req[r].userId))
    /\ req' = [req EXCEPT ![r] = Ended(r, "ok", "none")]
    /\ UNCHANGED <<quantity, sales, sale_items, tx, nextSaleId, today>>

\* ------------------------------------------------------------- environment
\* a statement of a call in flight fails (connection lost, statement or
\* transaction timeout, deadlock victim): the exception leaves the handler, and
\* $transaction rolls an open transaction back
StatementFails(r) ==
    /\ InFlight(r)
    /\ Rollback(r)
    /\ req' = [req EXCEPT ![r] = Ended(r, "InternalServerError", "none")]
    /\ UNCHANGED <<nextSaleId, today>>

\* time passes: the next instant of the clock
NextDay ==
    /\ today < MaxInstant
    /\ today' = today + 1
    /\ UNCHANGED <<db, tx, req, nextSaleId>>

\* ------------------------------------------------------------ specification
\* The sales the database holds at the start, with the OUT movements of their
\* creation: sale 1 of tenant A in warehouse 1, two lines, made at instant 1, and
\* sale 2 of tenant A, one line, made the day before and paid by card.
InitSaleItems ==
    << [sale_id |-> 1, inventory_item_id |-> 1, quantity |-> 2, unit_price |-> 1500,
        discount_amount |-> 300, tax_amount |-> 0, subtotal |-> 2700],
       [sale_id |-> 1, inventory_item_id |-> 2, quantity |-> 1, unit_price |-> 400,
        discount_amount |-> 0, tax_amount |-> 0, subtotal |-> 400] >>
InitSale(status, day) ==
    [sale_number |-> <<utcDate(day), 1>>, warehouse_id |-> 1, user_id |-> 1, status |-> status,
     payment_method |-> "CASH", total_amount |-> 3400, discount_amount |-> 300,
     tax_amount |-> 0, final_amount |-> 3100, tenant_id |-> "A", created_at |-> day]
EarlierSaleItems ==
    << [sale_id |-> 2, inventory_item_id |-> 1, quantity |-> 1, unit_price |-> 1225,
        discount_amount |-> 0, tax_amount |-> 0, subtotal |-> 1225] >>
EarlierSale ==
    [sale_number |-> <<utcDate(-1), 1>>, warehouse_id |-> 1, user_id |-> 1,
     status |-> "COMPLETED", payment_method |-> "CARD", total_amount |-> 1225,
     discount_amount |-> 0, tax_amount |-> 0, final_amount |-> 1225, tenant_id |-> "A",
     created_at |-> -1]
InitMovements ==
    [k \in 1..Len(InitSaleItems) |->
        [inventory_item_id |-> InitSaleItems[k].inventory_item_id, warehouse_id |-> 1,
         movement_type |-> "OUT", quantity |-> InitSaleItems[k].quantity,
         reference_type |-> "SALE", reference_id |-> 1, created_by |-> 1]]
    \o
    [k \in 1..Len(EarlierSaleItems) |->
        [inventory_item_id |-> EarlierSaleItems[k].inventory_item_id, warehouse_id |-> 1,
         movement_type |-> "OUT", quantity |-> EarlierSaleItems[k].quantity,
         reference_type |-> "SALE", reference_id |-> 2, created_by |-> 1]]

Init ==
    /\ quantity = [i \in Items |-> InitQuantity(i)]
    /\ \E status \in {"COMPLETED", "CANCELLED", "REFUNDED"} :
            sales = (1 :> InitSale(status, 1)) @@ (2 :> EarlierSale)
    /\ sale_items = (1 :> InitSaleItems) @@ (2 :> EarlierSaleItems)
    /\ stock_movements = InitMovements
    /\ tx = [r \in Reqs |-> NoTx]
    /\ req = [r \in Reqs |-> IdleReq]
    /\ nextSaleId = 3
    /\ today = 1

Next ==
    \/ \E r \in Reqs : CreateSale(r)
    \/ \E r \in Reqs : CreateSaleValidate(r)
    \/ \E r \in Reqs : CreateSaleNumber(r)
    \/ \E r \in Reqs : CreateSaleInsertSale(r)
    \/ \E r \in Reqs : CreateSaleItem(r)
    \/ \E r \in Reqs : CreateSaleReadBack(r)
    \/ \E r \in Reqs : CancelSale(r)
    \/ \E r \in Reqs : CancelSaleUpdate(r)
    \/ \E r \in Reqs : CancelSaleItem(r)
    \/ \E r \in Reqs : CancelSaleReadBack(r)
    \/ \E r \in Reqs : GetStatistics(r)
    \/ \E r \in Reqs : GetStatisticsCount(r)
    \/ \E r \in Reqs : GetStatisticsAggregate(r)
    \/ \E r \in Reqs : GetStatisticsFindMany(r)
    \/ \E r \in Reqs : GetStatisticsReturn(r)
    \/ \E r \in Reqs : AdjustStock(r)
    \/ \E r \in Reqs : AdjustStockUpdate(r)
    \/ \E r \in Reqs : AdjustStockMovement(r)
    \/ \E r \in Reqs : CreateStockMovement(r)
    \/ \E r \in Reqs : CreateStockMovementUpdate(r)
    \/ \E r \in Reqs : CreateStockMovementCreate(r)
    \/ \E r \in Reqs : StatementFails(r)
    \/ NextDay

Spec == Init /\ [][Next]_vars


\* ------------------------------------------------------------------ claims
\* rows of the ledger written for sale id with the given reference and type, for item i
MovementsOf(refType, id, type, i) ==
    { k \in 1..Len(stock_movements) :
        /\ stock_movements[k].reference_type = refType
        /\ stock_movements[k].reference_id = id
        /\ stock_movements[k].movement_type = type
        /\ stock_movements[k].inventory_item_id = i }

\* the positions of a sequence of lines that name item i
LinesOf(lines, i) == { k \in 1..Len(lines) : lines[k].inventory_item_id = i }

\* call r ran with no other call in flight: those before it had returned when it
\* started, those after it started once it had returned
Alone(r) ==
    /\ \A o \in Reqs : o < r => o \in req[r].after
    /\ \A o \in Reqs : o > r => req[o].pc = "idle" \/ r \in req[o].after

\* a createSale call that got through validation and the insert of the sale and
\* was not hit by a failing statement
SaleCallDone(r) ==
    /\ req[r].op = "createSale"
    /\ req[r].pc = "done"
    /\ req[r].saleId # 0
    /\ req[r].result # "InternalServerError"

\* C1: in every reachable state every committed inventory_items.quantity is >= 0
C1_QuantityNonNegative == \A i \in Items : quantity[i] >= 0

\* C1 witness: a sale call went through its transaction, a manual movement was
\* recorded, and an item is left with less than it started with
C1_Witness ==
    /\ \E r \in Reqs : SaleCallDone(r)
    /\ \E r \in Reqs : req[r].op = "createStockMovement" /\ req[r].result = "ok"
    /\ \E i \in Items : quantity[i] < InitQuantity(i)


RECURSIVE SoldQty(_, _, _)
\* the quantity the first k validated lines ask of item i
SoldQty(validatedItems, i, k) ==
    IF k = 0 THEN 0
    ELSE SoldQty(validatedItems, i, k - 1)
         + (IF validatedItems[k].item.inventory_item_id = i
                THEN validatedItems[k].item.quantity ELSE 0)

\* the validated lines of a call that name item i
ValidatedLinesOf(r, i) ==
    { k \in 1..Len(req[r].validatedItems) :
        req[r].validatedItems[k].item.inventory_item_id = i }

\* C2: of two concurrent sales of 3 units of an item holding 5 (reserved 0) that
\* both read the stock before either wrote, exactly one commits, the other fails
\* with the insufficient-stock error, and 2 units are left
C2_OneOfTwoConcurrentSalesCommits ==
    \A r, o \in Reqs :
        ( /\ r < o
          /\ SaleCallDone(r) /\ SaleCallDone(o)
          /\ r \notin req[o].after
          /\ \A p \in Reqs \ {r, o} : req[p].pc = "idle"
          /\ \A p \in {r, o} :
                /\ Len(req[p].validatedItems) = 1
                /\ req[p].validatedItems[1].item.inventory_item_id = 1
                /\ req[p].validatedItems[1].item.quantity = 3
                /\ req[p].validatedItems[1].inventoryItem.quantity = 5 )
        => /\ {req[r].result, req[o].result} = {"ok", "BadRequest: insufficient stock"}
           /\ quantity[1] = 2

\* C3: when a createSale call fails inside its transaction, the step that ends it
\* changes no committed row, and no sale, sale item or movement of that sale is
\* visible afterwards
C3_FailedSaleLeavesNothing ==
    [][\A r \in Reqs :
        ( /\ req[r].op = "createSale"
          /\ tx[r].open
          /\ req'[r].pc = "done"
          /\ req'[r].result # "ok" )
        => /\ quantity' = quantity
           /\ sales' = sales
           /\ sale_items' = sale_items
           /\ stock_movements' = stock_movements
           /\ req[r].saleId \notin DOMAIN sales'
           /\ req[r].saleId \notin DOMAIN sale_items'
           /\ \A k \in 1..Len(stock_movements') :
                ~(stock_movements'[k].reference_type = "SALE"
                  /\ stock_movements'[k].reference_id = req[r].saleId)]_vars

\* C3 witness: a createSale call of two lines has failed after its transaction
\* inserted the sale
C3_Witness ==
    \E r \in Reqs :
        /\ req[r].op = "createSale" /\ req[r].pc = "done"
        /\ req[r].saleId # 0 /\ req[r].result # "ok"
        /\ Len(req[r].validatedItems) = 2

\* C4: a createSale call that passed validation and ran alone succeeds: one sale
\* with status COMPLETED and one sale item per line are committed and returned
C4_ValidSaleSucceeds ==
    \A r \in Reqs :
        (SaleCallDone(r) /\ Alone(r))
        => /\ req[r].result = "ok"
           /\ req[r].saleId \in DOMAIN sales
           /\ sales[req[r].saleId].status = "COMPLETED"
           /\ Len(sale_items[req[r].saleId]) = Len(req[r].validatedItems)
           /\ req[r].returned = "COMPLETED"

ValidationErrors ==
    {"NotFound: warehouse", "NotFound: inventory item",
     "BadRequest: insufficient stock", "BadRequest: invalid unit price"}

\* a line createSale may accept for a tenant: its item is in an active warehouse of
\* the tenant, the stock read less the reserved quantity covers it, and the price --
\* the override if given, else the selling price -- is positive
AcceptableLine(v, tenantId) ==
    LET i == v.item.inventory_item_id
    IN  /\ i \in Items
        /\ WarehouseTenant(ItemWarehouse(i)) = tenantId
        /\ WarehouseActive(ItemWarehouse(i))
        /\ v.inventoryItem.quantity - ReservedQty(i) >= v.item.quantity
        /\ v.unitPrice > 0
        /\ v.unitPrice = IF v.item.unit_price # Null THEN v.item.unit_price
                         ELSE SellingPrice(i)

\* C6: createSale accepts no line that fails a validation rule, and the step in
\* which it rejects a request leaves every committed row and every transaction as
\* they were, the call having inserted no sale
C6_RejectedSaleWritesNothing ==
    [][\A r \in Reqs :
        /\ (req'[r].op = "createSale" /\ req'[r].pc # "done")
            => \A k \in 1..Len(req'[r].validatedItems) :
                    AcceptableLine(req'[r].validatedItems[k], req'[r].tenantId)
        /\ ( /\ req[r].pc # "done"
             /\ req'[r].op = "createSale"
             /\ req'[r].pc = "done"
             /\ req'[r].result \in ValidationErrors )
            => /\ quantity' = quantity
               /\ sales' = sales
               /\ sale_items' = sale_items
               /\ stock_movements' = stock_movements
               /\ tx' = tx
               /\ req'[r].saleId = 0]_vars

\* C6 witness: a request is rejected for insufficient stock on its second line,
\* the first line having been valid
C6_Witness ==
    \E r \in Reqs :
        /\ req[r].op = "createSale" /\ req[r].pc = "done"
        /\ req[r].result = "BadRequest: insufficient stock"
        /\ Len(req[r].validatedItems) = 1

C8_SecondCancelRejected ==
    [][\A o, r \in Reqs :
        ( /\ req[o].op = "cancelSale" /\ req[o].pc = "done" /\ req[o].result = "ok"
          /\ req[r].pc = "idle"
          /\ req'[r].op = "cancelSale"
          /\ req'[r].id = req[o].id
          /\ req'[r].tenantId = req[o].tenantId )
        => /\ req'[r].pc = "done"
           /\ req'[r].result = "BadRequest: already cancelled"
           /\ quantity' = quantity
           /\ sales' = sales
           /\ sale_items' = sale_items
           /\ stock_movements' = stock_movements
           /\ tx' = tx]_vars

\* C8 witness: the first cancelSale succeeded, the second, started after the first
\* had returned, was rejected
C8_Witness ==
    \E o, r \in Reqs :
        /\ req[o].op = "cancelSale" /\ req[o].result = "ok"
        /\ req[r].op = "cancelSale" /\ req[r].id = req[o].id
        /\ o \in req[r].after
        /\ req[r].result = "BadRequest: already cancelled"

\* C9: for every sale at most one cancelSale call succeeds, and the ledger holds at
\* most one RETURN movement per line of the sale
C9_CancelledAtMostOnce ==
    \A id \in DOMAIN sales :
        /\ Cardinality({ r \in Reqs : /\ req[r].op = "cancelSale"
                                      /\ req[r].id = id
                                      /\ req[r].result = "ok" }) <= 1
        /\ \A i \in Items :
            Cardinality(MovementsOf("SALE_CANCELLATION", id, "RETURN", i))
                <= Cardinality(LinesOf(sale_items[id], i))

\* C10: the sale a successful cancelSale returns has status CANCELLED
C10_CancelReturnsCancelled ==
    \A r \in Reqs :
        (req[r].op = "cancelSale" /\ req[r].pc = "done" /\ req[r].result = "ok")
        => req[r].returned = "CANCELLED"


\* C11: a cancelSale call on a COMPLETED sale of the tenant gets past its checks only
\* when the sale was created on the calendar day of the call; for a sale of an
\* earlier day the call ends at once with the forbidden error, and that step leaves
\* the sale COMPLETED and changes no quantity, no movement and no transaction
C11_CancelOnlySameDay ==
    [][\A r \in Reqs :
        ( /\ req[r].pc = "idle"
          /\ req'[r].op = "cancelSale"
          /\ req'[r].id \in DOMAIN sales
          /\ sales[req'[r].id].tenant_id = req'[r].tenantId
          /\ sales[req'[r].id].status = "COMPLETED" )
        => IF localDate(sales[req'[r].id].created_at) = localDate(today)
               THEN req'[r].pc = "updateSale"
               ELSE /\ req'[r].pc = "done"
                    /\ req'[r].result = "Forbidden: not the same day"
                    /\ sales'[req'[r].id].status = "COMPLETED"
                    /\ quantity' = quantity
                    /\ stock_movements' = stock_movements
                    /\ sales' = sales
                    /\ tx' = tx]_vars

\* C11 witness: a sale of day 1, still COMPLETED, was refused cancellation on day 2
C11_Witness ==
    \E r \in Reqs :
        /\ req[r].op = "cancelSale" /\ req[r].pc = "done"
        /\ req[r].result = "Forbidden: not the same day"
        /\ req[r].id \in DOMAIN sales
        /\ sales[req[r].id].status = "COMPLETED"
        /\ localDate(sales[req[r].id].created_at) < localDate(today)

\* C12: no step changes the status of a CANCELLED or REFUNDED sale, and a step that
\* changes the status of an existing sale sets it to CANCELLED
C12_TerminalStatuses ==
    [][\A id \in DOMAIN sales :
        /\ id \in DOMAIN sales'
        /\ sales[id].status \in {"CANCELLED", "REFUNDED"}
            => sales'[id].status = sales[id].status
        /\ sales'[id].status # sales[id].status
            => sales'[id].status = "CANCELLED"]_vars

\* C12 witness: every call has ended, one of them a cancelSale on a REFUNDED sale
\* that was turned away, and the sale is still REFUNDED
C12_Witness ==
    /\ \E r \in Reqs :
        /\ req[r].op = "cancelSale" /\ req[r].pc = "done"
        /\ req[r].result = "BadRequest: refunded"
        /\ req[r].id \in DOMAIN sales
        /\ sales[req[r].id].status = "REFUNDED"
    /\ \A r \in Reqs : req[r].pc = "done"


\* C13: when no call is in flight, an item whose quantity differs from the quantity
\* it started with has a movement recorded for it since the start: no change of a
\* quantity is left without its movement, also after a call has failed
C13_QuantityChangeHasMovement ==
    (\A r \in Reqs : ~InFlight(r))
    => \A i \in Items :
        quantity[i] # InitQuantity(i)
        => \E k \in (Len(InitMovements) + 1)..Len(stock_movements) :
                stock_movements[k].inventory_item_id = i

\* the rows a step adds to the ledger
NewMovements == (Len(stock_movements) + 1)..Len(stock_movements')

\* C14: the movement of an adjustStock or createStockMovement call has the magnitude
\* of the change that the call's update makes to the quantity, and a movement that a
\* committing transaction adds as the only one of its item has the magnitude of the
\* change of that item's quantity in the commit
C14_MovementMagnitudeIsChange ==
    [][/\ \A r \in Reqs :
            /\ (req[r].pc = "adjustUpdate" /\ req'[r].pc = "adjustMovement")
                => AdjustMovementRow(req[r].inventoryItem, req[r].newQuantity,
                                     req[r].userId).quantity
                        = Abs(quantity'[req[r].id] - quantity[req[r].id])
            /\ (req[r].pc = "movementUpdate" /\ req'[r].pc = "movementCreate")
                => ManualMovementRow(req[r].dto, req[r].userId).quantity
                        = Abs(quantity'[req[r].id] - quantity[req[r].id])
       /\ \A r \in Reqs :
            (tx[r].open /\ ~tx'[r].open)
            => \A k \in NewMovements :
                LET i == stock_movements'[k].inventory_item_id
                IN  (\A l \in NewMovements :
                        stock_movements'[l].inventory_item_id = i => l = k)
                    => stock_movements'[k].quantity = Abs(quantity'[i] - quantity[i])]_vars

\* C15: a createStockMovement call of type OUT gets past its checks only when the
\* quantity read less the reserved quantity covers the movement, and its update then
\* lowers the quantity by exactly the movement's quantity
C15_ManualOutChecksAvailable ==
    [][\A r \in Reqs :
        /\ ( /\ req[r].pc = "idle"
             /\ req'[r].op = "createStockMovement"
             /\ req'[r].pc = "movementUpdate"
             /\ req'[r].dto.movement_type = "OUT" )
            => availableStock(req'[r].inventoryItem) >= req'[r].dto.quantity
        /\ ( /\ req[r].pc = "movementUpdate"
             /\ req'[r].pc = "movementCreate"
             /\ req[r].dto.movement_type = "OUT" )
            => quantity'[req[r].id] = quantity[req[r].id] - req[r].dto.quantity]_vars

\* C16: the update of a createStockMovement call of type RETURN raises the quantity
\* by the movement's quantity, and the call then records one RETURN movement of
\* that quantity
C16_ManualReturnRestores ==
    [][\A r \in Reqs :
        /\ ( /\ req[r].pc = "movementUpdate"
             /\ req'[r].pc = "movementCreate"
             /\ req[r].dto.movement_type = "RETURN" )
            => quantity'[req[r].id] = quantity[req[r].id] + req[r].dto.quantity
        /\ ( /\ req[r].pc = "movementCreate"
             /\ req'[r].pc = "done"
             /\ req'[r].result = "ok"
             /\ req[r].dto.movement_type = "RETURN" )
            => /\ Len(stock_movements') = Len(stock_movements) + 1
               /\ stock_movements'[Len(stock_movements')].movement_type = "RETURN"
               /\ stock_movements'[Len(stock_movements')].quantity = req[r].dto.quantity]_vars


\* a createSale call that holds the sale number it was allocated
HoldsSaleNumber(r) ==
    /\ req[r].op = "createSale"
    /\ req[r].pc \in {"insertSale", "saleItems", "readBack"}

\* C17: two createSale calls of one tenant that are in flight together and were
\* allocated their numbers on the same day hold different sale numbers
C17_ConcurrentSaleNumbersDiffer ==
    \A r, o \in Reqs :
        ( /\ r # o
          /\ HoldsSaleNumber(r) /\ HoldsSaleNumber(o)
          /\ req[r].tenantId = req[o].tenantId
          /\ req[r].saleNumber[1] = req[o].saleNumber[1] )
        => req[r].saleNumber # req[o].saleNumber

\* C18: no createSale call ends on the unique violation of the one insert it made:
\* a collision of the sale number is answered by a new number and another insert,
\* and only after several of them by a conflict error
C18_CollisionIsRetried ==
    \A r \in Reqs :
        (req[r].op = "createSale" /\ req[r].pc = "done")
        => req[r].result # "UniqueViolation: sale_number"

\* C19: the insert of a sale is refused for its sale number only when a sale of the
\* same tenant has that number: the sales of other tenants do not decide whether a
\* createSale call gets through
C19_SaleNumberTenantScoped ==
    [][\A r \in Reqs :
        ( /\ req[r].pc = "insertSale"
          /\ req'[r].pc = "done"
          /\ req'[r].result = "UniqueViolation: sale_number" )
        => \E id \in DOMAIN sales :
                /\ sales[id].tenant_id = req[r].tenantId
                /\ sales[id].sale_number = req[r].saleNumber]_vars

RECURSIVE SumSeq(_)
\* the sum of a sequence of numbers
SumSeq(seq) == IF seq = <<>> THEN 0 ELSE seq[1] + SumSeq(Tail(seq))

\* a createSale call whose transaction has inserted the sale and all its items
SaleWritten(r) ==
    /\ req[r].op = "createSale"
    /\ req[r].pc = "readBack"
    /\ tx[r].open

RoundHalfAway2(vS) ==
    IF vS >= 0 THEN (vS + 5000) \div 10000 ELSE -((5000 - vS) \div 10000)

\* the reference formula of the item calculation, rounded half away from zero at
\* the end
ReferenceItemSubtotal(qty, unitPrice, discountPercent, discountAmount, taxPercent) ==
    LET baseS == qty * unitPrice * 10000
        discS == IF discountAmount # Null /\ discountAmount > 0
                     THEN discountAmount * 1000
                 ELSE IF discountPercent # Null /\ discountPercent > 0
                     THEN qty * unitPrice * discountPercent * 100
                 ELSE 0
        taxS  == IF taxPercent # Null /\ taxPercent > 0
                     THEN ((baseS - discS) * taxPercent) \div 100
                 ELSE 0
    IN  [subtotal |-> RoundHalfAway2(baseS - discS + taxS),
         discountAmount |-> RoundHalfAway2(discS),
         taxAmount |-> RoundHalfAway2(taxS)]

\* the validated lines of the createSale calls in flight
LinesInFlight ==
    { v \in UNION { { req[r].validatedItems[k] : k \in 1..Len(req[r].validatedItems) } :
                    r \in { q \in Reqs : req[q].op = "createSale" /\ req[q].pc # "done" } } :
        TRUE }

\* C21: the subtotal, discount and tax that calculateItemSubtotal gave every
\* validated line are those of the reference formula
C21_SubtotalIsReference ==
    \A v \in LinesInFlight :
        LET ref == ReferenceItemSubtotal(v.item.quantity, v.unitPrice,
                        v.item.discount_percent, v.item.discount_amount,
                        v.item.tax_percent)
        IN  /\ v.subtotal = ref.subtotal
            /\ v.discountAmount = ref.discountAmount
            /\ v.taxAmount = ref.taxAmount

\* the COMPLETED sales of a tenant, and the number of them paid by method m
CompletedSales(tenantId) ==
    { id \in DOMAIN sales :
        sales[id].tenant_id = tenantId /\ sales[id].status = "COMPLETED" }
PaidBy(ids, m) == { id \in ids : sales[id].payment_method = m }
PaymentMethods == { sales[id].payment_method : id \in DOMAIN sales }

\* the step in which getStatistics of r returns, every other call having returned
\* before r started or not having started yet
StatisticsReturnsAlone(r) ==
    /\ req[r].op = "getStatistics"
    /\ req[r].pc = "queries"
    /\ req'[r].pc = "done"
    /\ req'[r].result = "ok"
    /\ \A o \in Reqs \ {r} : req[o].pc = "idle" \/ o \in req[r].after

\* total_sales, total_revenue and sales_by_payment_method of response st are those
\* of the tenant's COMPLETED sales
StatisticsCountCompleted(st, tenantId) ==
    LET S == CompletedSales(tenantId)
    IN  /\ st.total_sales = Cardinality(S)
        /\ st.total_revenue = SumFinalAmount(S)
        /\ DOMAIN st.sales_by_payment_method = { m \in PaymentMethods : PaidBy(S, m) # {} }
        /\ \A m \in DOMAIN st.sales_by_payment_method :
                st.sales_by_payment_method[m] = Cardinality(PaidBy(S, m))

\* C22 as stated: a getStatistics that runs after any sequence of creations and
\* cancellations counts only the tenant's COMPLETED sales: total_sales is their
\* number, total_revenue the sum of their final_amount, average_transaction is
\* total_revenue / total_sales (0 when there are none), and sales_by_payment_method
\* the number of them per payment method.
C22_StatisticsOfCompletedSales ==
    [][\A r \in Reqs : StatisticsReturnsAlone(r) =>
        LET st == req'[r].stats
        IN  /\ StatisticsCountCompleted(st, req[r].tenantId)
            /\ IF st.total_sales = 0
                   THEN st.average_transaction = 0
                   ELSE st.average_transaction * st.total_sales = st.total_revenue]_vars

\* C22 amended: the same, with average_transaction being total_revenue / total_sales
\* rounded to two decimals (the nearest hundredth).
C22_StatisticsAverageRounded ==
    [][\A r \in Reqs : StatisticsReturnsAlone(r) =>
        LET st == req'[r].stats
        IN  /\ StatisticsCountCompleted(st, req[r].tenantId)
            /\ IF st.total_sales = 0
                   THEN st.average_transaction = 0
                   ELSE 2 * Abs(st.average_transaction * st.total_sales
                                - st.total_revenue) <= st.total_sales]_vars

\* a getStatistics of tenant A that started after a cancelSale had cancelled sale 1
\* has returned: one sale, the earlier one, is left in its figures
C22_Witness ==
    \E r, o \in Reqs :
        /\ req[r].op = "getStatistics" /\ req[r].pc = "done" /\ req[r].result = "ok"
        /\ req[r].tenantId = "A"
        /\ o \in req[r].after
        /\ req[o].op = "cancelSale" /\ req[o].result = "ok"
        /\ req[r].stats.total_sales = 1
        /\ req[r].stats.total_revenue = 1225
        /\ req[r].stats.average_transaction = 1225
        /\ req[r].stats.sales_by_payment_method = [m \in {"CARD"} |-> 1]

\* the tenant an inventory item belongs to, through its warehouse
ItemTenant(i) == WarehouseTenant(ItemWarehouse(i))

\* the rows a transaction has appended to its movements in this step
NewTxMovements(r) == (Len(tx[r].stock_movements) + 1)..Len(tx'[r].stock_movements)

\* C23: tenant isolation of mutations. A step of a call made with one tenant's
\* context changes (in the committed rows or in the call's transaction) no quantity
\* of an inventory item of another tenant and no status of a sale of another tenant,
\* and records no stock movement for an item of another tenant.
C23_MutationsStayInTenant ==
    [][\A r \in Reqs : req'[r] # req[r] =>
        LET tenantId == IF req[r].pc = "idle" THEN req'[r].tenantId ELSE req[r].tenantId
        IN  /\ \A i \in Items :
                   quantity'[i] # quantity[i] \/ tx'[r].delta[i] # tx[r].delta[i]
                       => ItemTenant(i) = tenantId
            /\ \A id \in DOMAIN sales :
                   sales'[id].status # sales[id].status => sales[id].tenant_id = tenantId
            /\ \A id \in DOMAIN tx'[r].sales : tx'[r].sales[id].tenant_id = tenantId
            /\ \A k \in NewMovements :
                   ItemTenant(stock_movements'[k].inventory_item_id) = tenantId
            /\ \A k \in NewTxMovements(r) :
                   ItemTenant(tx'[r].stock_movements[k].inventory_item_id) = tenantId]_vars

\* tenant B has adjusted the stock of its item 3, tenant A has cancelled its sale 1
\* and got its two lines back
C23_Witness ==
    \E r, o \in Reqs :
        /\ req[r].op = "adjustStock" /\ req[r].tenantId = "B" /\ req[r].result = "ok"
        /\ quantity[3] # InitQuantity(3)
        /\ req[o].op = "cancelSale" /\ req[o].tenantId = "A" /\ req[o].result = "ok"
        /\ sales[1].status = "CANCELLED"
        /\ quantity[1] = InitQuantity(1) + 2

\* the quantity the lines of sale id hold of item i
RestoredQty(id, i) ==
    SumSeq([k \in 1..Len(sale_items[id]) |->
               IF sale_items[id][k].inventory_item_id = i
                   THEN sale_items[id][k].quantity ELSE 0])

\* calls c and x overlapped: neither had returned when the other started
Concurrent(c, x) == c # x /\ c \notin req[x].after /\ x \notin req[c].after

ReceivedRows(i) ==
    { k \in (Len(InitMovements) + 1)..Len(stock_movements) :
        /\ stock_movements[k].movement_type = "IN"
        /\ stock_movements[k].reference_type = "null"
        /\ stock_movements[k].inventory_item_id = i }

\* C25: two createStockMovement calls of type IN with quantities a and b on the
\* same item, run concurrently, leave the item at its initial quantity + a + b.
C25_ConcurrentReceiptsAdd ==
    \A i \in Items :
        ( /\ \A r \in Reqs : /\ req[r].op = "createStockMovement"
                             /\ req[r].pc = "done" /\ req[r].result = "ok"
          /\ Concurrent(1, 2)
          /\ Cardinality(ReceivedRows(i)) = 2 )
        => quantity[i] = InitQuantity(i)
                + SumSeq([k \in 1..Len(stock_movements) |->
                            IF k \in ReceivedRows(i) THEN stock_movements[k].quantity
                            ELSE 0])

\* the committed sales of a tenant whose number carries date d
NumberedOn(tenantId, d) ==
    { id \in DOMAIN sales :
        sales[id].tenant_id = tenantId /\ sales[id].sale_number[1] = d }

\* C26: a createSale call that overlaps no other call gets, as the k-th sale of its
\* tenant on its creation date, the number <<date, k>>, the date being the UTC or
\* the server-local one, and no sale of the tenant holds that number already.
C26_SaleNumberIsNextOfDate ==
    [][\A r \in Reqs :
        ( /\ req[r].pc = "number"
          /\ req'[r].pc = "insertSale"
          /\ \A o \in Reqs \ {r} : ~InFlight(o) )
        => LET n == req'[r].saleNumber
           IN  /\ \E d \in {utcDate(today), localDate(today)} :
                      n = <<d, Cardinality(NumberedOn(req[r].tenantId, d)) + 1>>
               /\ \A id \in DOMAIN sales :
                      sales[id].tenant_id = req[r].tenantId => sales[id].sale_number # n]_vars

\* createSale call r is inside its transaction, about to update the row of item i
UpdatesNext(r, i) ==
    /\ req[r].op = "createSale"
    /\ req[r].pc = "saleItems"
    /\ req[r].validatedItems[req[r].k].inventoryItem.id = i

\* each of two createSale transactions holds the row the other is about to update
CrossWait ==
    \E r, o \in Reqs : \E i, j \in Items :
        /\ r # o
        /\ UpdatesNext(r, j) /\ j \in tx[o].rows
        /\ UpdatesNext(o, i) /\ i \in tx[r].rows

\* C27: createSale updates the rows of a sale in ascending inventory-item id,
\* whatever the order of the request's lines, and two concurrent sales never reach a
\* state in which each holds the row the other is waiting for.
C27_StableUpdateOrder ==
    /\ [][\A r \in Reqs : \A i \in Items :
            (UpdatesNext(r, i) /\ i \in tx'[r].rows)
            => \A j \in tx[r].rows : j <= i]_vars
    /\ []~CrossWait

\* createSale call r has validated all its lines and has not returned
PastValidation(r) ==
    /\ req[r].op = "createSale"
    /\ req[r].pc \in {"number", "insertSale", "saleItems", "readBack"}

\* C28: a createSale call, the only call running, whose lines name an item more than
\* once gets through validation only if the quantities asked of the item add up to
\* at most quantity - reserved_qty, and its transaction never takes the item below
\* zero or below reserved_qty.
C28_RepeatedItemWithinAvailable ==
    \A r \in Reqs :
        (PastValidation(r) /\ \A o \in Reqs \ {r} : ~InFlight(o))
        => \A i \in Items :
            Cardinality(ValidatedLinesOf(r, i)) > 1
            => /\ SoldQty(req[r].validatedItems, i, Len(req[r].validatedItems))
                    <= quantity[i] - ReservedQty(i)
               /\ quantity[i] + tx[r].delta[i] >= 0
               /\ quantity[i] + tx[r].delta[i] >= ReservedQty(i)

\* C29: for every line createSale has validated the discount is at most quantity x
\* unit_price and the subtotal is not negative, and the final_amount of every sale
\* row it writes is not negative.
C29_AmountsNonNegative ==
    /\ \A r \in Reqs : \A k \in 1..Len(req[r].validatedItems) :
            LET v == req[r].validatedItems[k]
            IN  (InFlight(r) /\ req[r].op = "createSale")
                => /\ v.discountAmount <= v.item.quantity * v.unitPrice
                   /\ v.subtotal >= 0
    /\ \A r \in Reqs : \A id \in DOMAIN tx[r].sales :
            tx[r].sales[id].final_amount >= 0

\* C30: the values of one getStatistics response are mutually consistent, whatever
\* ran beside the call: there is one set of sales of the tenant of which total_sales
\* is the number, total_revenue the sum of final_amount, and sales_by_payment_method
\* the counts per method (so that these counts add up to total_sales).
C30_StatisticsMutuallyConsistent ==
    \A r \in Reqs :
        (req[r].op = "getStatistics" /\ req[r].pc = "done" /\ req[r].result = "ok")
        => LET st == req[r].stats
           IN  \E S \in SUBSET { id \in DOMAIN sales : sales[id].tenant_id = req[r].tenantId } :
                  /\ st.total_sales = Cardinality(S)
                  /\ st.total_revenue = SumFinalAmount(S)
                  /\ DOMAIN st.sales_by_payment_method
                        = { m \in PaymentMethods : PaidBy(S, m) # {} }
                  /\ \A m \in DOMAIN st.sales_by_payment_method :
                        st.sales_by_payment_method[m] = Cardinality(PaidBy(S, m))

====
